---------------------------- MODULE Spec2Model ----------------------------
(***************************************************************************)
(* Wake-on-demand proxy (src/server.js): the connection handler, the lock  *)
(* (restarting, lastWake, COOLDOWN_MS), the deferred reset timer and the   *)
(* three outbound calls.  JavaScript runs one callback at a time, so every *)
(* action is the code between two suspension points (await) of a handler,  *)
(* or one timer callback.  Time is the value of Date.now() in ms.          *)
(***************************************************************************)
EXTENDS Integers, Sequences, FiniteSets, TLC

\* ------------------------------------------------------------- bounds
\* Number of client connections of a run.
NumConns == 2
\* Milliseconds the clock advances in one step.
Tick == 20000
\* Number of clock steps of a run.
MaxTicks == 6

\* ---------------------------------------------------------- constants
COOLDOWN_MS == 60000

\* Date.now() when the process starts: far more than COOLDOWN_MS after the
\* epoch, so that now - lastWake >= COOLDOWN_MS holds for lastWake = 0.
StartTime == COOLDOWN_MS + Tick

Conns == 1..NumConns

\* The texts written by socket.end(text) (colour prefix and newline left out).
MsgOnline == "Server is already online, please join!"
MsgWait == "Server is starting... please wait."
MsgNoDeployment == "Error: No deployment found."
MsgStarting == "Server is starting... please try again in ~30s."
MsgRestartError == "Error starting server, try again later."

\* ------------------------------------------------- first data chunk
\* A chunk is a sequence of characters; \w is [A-Za-z0-9_].
WordChars ==
    {"M", "C", "P", "i", "n", "g", "H", "o", "s", "t", "S", "e", "v", "_", "1"}

IsWordChar(ch) == ch \in WordChars

\* data.toString("utf8").replace(/[^\w]/g, "")
StripNonWord(data) == SelectSeq(data, IsWordChar)

PingMarker == <<"M", "C", "P", "i", "n", "g", "H", "o", "s", "t">>

\* username.includes("MCPingHost")
Includes(s, m) ==
    \E i \in 1..(Len(s) + 1) :
        /\ i + Len(m) - 1 <= Len(s)
        /\ SubSeq(s, i, i + Len(m) - 1) = m

\* First chunks a client may send: no bytes, nothing but non-word bytes, a
\* status ping, a ping followed by more text, a handshake with a player name.
Chunks ==
    { << >>,
      <<"#", " ">>,
      <<"#", "M", "C", "P", "i", "n", "g", "H", "o", "s", "t", " ">>,
      <<"M", "C", "|", "P", "i", "n", "g", "H", "o", "s", "t", " ", "S", "t", "e", "v", "e">>,
      <<"#", "S", "t", "e", "v", "e", "_", "1", " ">> }

\* --------------------------------------------------- HTTP responses
\* What fetch() delivers: a transport error (the promise rejects), or a
\* response with res.ok and a body.
HealthResponses ==
    { [transport |-> "error", ok |-> FALSE, body |-> "none"],
      [transport |-> "ok", ok |-> FALSE, body |-> "active"],
      [transport |-> "ok", ok |-> TRUE, body |-> "malformed"],
      [transport |-> "ok", ok |-> TRUE, body |-> "active"],
      [transport |-> "ok", ok |-> TRUE, body |-> "stopped"] }

isServerRunningActiveOnly(r) ==
    r.transport = "ok" /\ r.ok /\ r.body = "active"

\* isServerRunning(): false on !res.ok, false from the catch (fetch threw,
\* res.json() threw, or the body is JSON null so that data.status threw),
\* true otherwise whatever data.status is.
isServerRunning(r) ==
    IF r.transport = "error" THEN FALSE
    ELSE IF ~r.ok THEN FALSE
    ELSE IF r.body \in {"malformed", "null"} THEN FALSE
    ELSE TRUE

Null == "null"
Throw == "throw"
DeploymentIds == {"d1", "d2"}

\* Bodies of the GraphQL endpoint: not JSON, JSON with errors, JSON with
\* neither errors nor data, JSON with data (edges: the deployment ids).
GraphBodies ==
    { [kind |-> "malformed", edges |-> << >>],
      [kind |-> "errors", edges |-> << >>],
      [kind |-> "nodata", edges |-> << >>],
      [kind |-> "data", edges |-> << >>],
      [kind |-> "data", edges |-> <<"d1">>],
      [kind |-> "data", edges |-> <<"d2", "d1">>] }

GraphResponses ==
    { [transport |-> "error", ok |-> FALSE, body |-> [kind |-> "malformed", edges |-> << >>]] }
    \cup
    { [transport |-> "ok", ok |-> o, body |-> b] : o \in BOOLEAN, b \in GraphBodies }

\* fetchLatestDeployment(): the value returned (Null or the node, named by
\* its id), or Throw when the promise rejects.  res.ok is not consulted.
fetchLatestDeployment(r) ==
    IF r.transport = "error" THEN Throw
    ELSE IF r.body.kind = "malformed" THEN Throw
    ELSE IF r.body.kind = "errors" THEN Null
    ELSE IF r.body.kind = "nodata" THEN Throw
    ELSE IF Len(r.body.edges) = 0 THEN Null
    ELSE r.body.edges[1]

\* restartDeployment(): "true", "false", or Throw when the promise rejects.
restartDeployment(r) ==
    IF r.transport = "error" THEN Throw
    ELSE IF r.body.kind = "malformed" THEN Throw
    ELSE IF r.body.kind = "errors" THEN "false"
    ELSE "true"

\* ------------------------------------------------------------ state
VARIABLES
    now,         \* Date.now()
    restarting,  \* let restarting
    lastWake,    \* let lastWake
    timers,      \* pending setTimeout callbacks: [owner, set, due]
    pc,          \* where each connection's handler is
    username,    \* the handler's local username
    deployment,  \* the handler's local deployment (its id, or Null)
    ok,          \* the handler's local ok
    out,         \* texts written to the socket
    ends,        \* number of socket.end calls
    calls,       \* outbound calls the handler made, in order
    running,     \* the value the handler got from isServerRunning()
    path,        \* the branch on which the handler ended
    wakeStart,   \* Date.now() when the handler set the lock (0: never)
    seen,        \* the lock as it was when the health check answered
    scheduled,   \* number of setTimeout calls of the handler
    fired,       \* number of its timer callbacks that ran
    probe        \* one call of a wrapper taken alone: its response and result

vars == <<now, restarting, lastWake, timers, pc, username, deployment, ok,
          out, ends, calls, running, path, wakeStart, seen, scheduled, fired,
          probe>>

locals == <<username, deployment, ok>>

NoProbe == [fn |-> "none", transport |-> "none", status |-> 0,
            body |-> [kind |-> "none", edges |-> << >>], result |-> "none"]

ServerInit ==
    /\ now = StartTime
    /\ restarting = FALSE
    /\ lastWake = 0
    /\ timers = {}
    /\ pc = [c \in Conns |-> "idle"]
    /\ username = [c \in Conns |-> << >>]
    /\ deployment = [c \in Conns |-> Null]
    /\ ok = [c \in Conns |-> "none"]
    /\ out = [c \in Conns |-> << >>]
    /\ ends = [c \in Conns |-> 0]
    /\ calls = [c \in Conns |-> << >>]
    /\ running = [c \in Conns |-> "none"]
    /\ path = [c \in Conns |-> "none"]
    /\ wakeStart = [c \in Conns |-> 0]
    /\ seen = [c \in Conns |-> "none"]
    /\ scheduled = [c \in Conns |-> 0]
    /\ fired = [c \in Conns |-> 0]

Init == ServerInit /\ probe = NoProbe

\* ---------------------------------------------------------- helpers
\* socket.end(...) followed by the handler's return.
EndSocket(c, texts, p) ==
    /\ out' = [out EXCEPT ![c] = @ \o texts]
    /\ ends' = [ends EXCEPT ![c] = @ + 1]
    /\ path' = [path EXCEPT ![c] = p]
    /\ pc' = [pc EXCEPT ![c] = "done"]

Call(c, op, arg) == calls' = [calls EXCEPT ![c] = Append(@, [op |-> op, arg |-> arg])]

IsProbeExactMatch(u) == u = PingMarker

\* if (username.includes("MCPingHost"))
IsProbe(u) == Includes(u, PingMarker)

LockHeldFlagOnly == restarting

LockHeldCooldownOnly == now - lastWake < COOLDOWN_MS

\* if (restarting || Date.now() - lastWake < COOLDOWN_MS)
LockHeld == restarting \/ now - lastWake < COOLDOWN_MS

\* The lock as a handler finds it: the flag set, the flag clear but less
\* than COOLDOWN_MS since lastWake, or neither.
LockState ==
    IF restarting THEN "flag"
    ELSE IF now - lastWake < COOLDOWN_MS THEN "cooldown"
    ELSE "free"

DecideLockFirst(isRunning) ==
    IF restarting \/ now - lastWake < COOLDOWN_MS THEN "wait"
    ELSE IF isRunning THEN "online"
    ELSE "initiate"

\* The order of the handler's tests once the health check has answered.
Decide(isRunning) ==
    IF isRunning THEN "online"
    ELSE IF LockHeld THEN "wait"
    ELSE "initiate"

KeepLockNoDeployment == UNCHANGED restarting

\* The no-deployment branch: restarting = false, no timer.
ReleaseNoDeployment == restarting' = FALSE

\* restartDeployment(deployment.id)
RestartArg(d) == d

RestartTextAlwaysStarting(v) == MsgStarting

\* The text for the value of ok.
RestartText(v) == IF v = "true" THEN MsgStarting ELSE MsgRestartError

ResetDelayHalf == COOLDOWN_MS \div 2

\* setTimeout(..., COOLDOWN_MS)
ResetDelay == COOLDOWN_MS

TakeLockStampOnly == UNCHANGED restarting /\ lastWake' = now

\* restarting = true; lastWake = Date.now();
TakeLock == restarting' = TRUE /\ lastWake' = now

\* ---------------------------------------------------------- actions
\* Data with the return after the ping branch's socket.end() left out.
DataNoReturn(c, data) ==
    /\ pc[c] = "idle"
    /\ \A b \in Conns : b < c => pc[b] # "idle"
    /\ LET u == StripNonWord(data) IN
        /\ username' = [username EXCEPT ![c] = u]
        /\ IF u = << >>
           THEN EndSocket(c, << >>, "dropped") /\ UNCHANGED calls
           ELSE /\ pc' = [pc EXCEPT ![c] = "health"]
                /\ Call(c, "health", "")
                /\ ends' = [ends EXCEPT ![c] = IF IsProbe(u) THEN @ + 1 ELSE @]
                /\ UNCHANGED <<out, path>>
    /\ UNCHANGED <<now, restarting, lastWake, timers, deployment, ok, running,
                   wakeStart, seen, scheduled, fired>>
    /\ UNCHANGED probe

\* The first data chunk of connection c arrives.  Connections are named in
\* the order in which their first chunk arrives.
Data(c, data) ==
    /\ pc[c] = "idle"
    /\ \A b \in Conns : b < c => pc[b] # "idle"
    /\ LET u == StripNonWord(data) IN
        /\ username' = [username EXCEPT ![c] = u]
        /\ IF u = << >>
           THEN EndSocket(c, << >>, "dropped") /\ UNCHANGED calls
           ELSE IF IsProbe(u)
           THEN EndSocket(c, << >>, "probe") /\ UNCHANGED calls
           ELSE /\ pc' = [pc EXCEPT ![c] = "health"]
                /\ Call(c, "health", "")
                /\ UNCHANGED <<out, ends, path>>
    /\ UNCHANGED <<now, restarting, lastWake, timers, deployment, ok, running,
                   wakeStart, seen, scheduled, fired>>
    /\ UNCHANGED probe

\* await isServerRunning() resumes with the answer to response r; the
\* lock is tested and set in the same callback.
HealthReturn(c, r) ==
    /\ pc[c] = "health"
    /\ running' = [running EXCEPT ![c] = IF isServerRunning(r) THEN "true" ELSE "false"]
    /\ seen' = [seen EXCEPT ![c] = LockState]
    /\ LET d == Decide(isServerRunning(r)) IN
        IF d = "online"
        THEN /\ EndSocket(c, <<MsgOnline>>, "running")
             /\ UNCHANGED <<restarting, lastWake, wakeStart, calls>>
        ELSE IF d = "wait"
        THEN /\ EndSocket(c, <<MsgWait>>, "starting")
             /\ UNCHANGED <<restarting, lastWake, wakeStart, calls>>
        ELSE /\ TakeLock
             /\ wakeStart' = [wakeStart EXCEPT ![c] = now]
             /\ Call(c, "fetch", "")
             /\ pc' = [pc EXCEPT ![c] = "fetch"]
             /\ UNCHANGED <<out, ends, path>>
    /\ UNCHANGED <<now, timers, locals, scheduled, fired>>
    /\ UNCHANGED probe

\* await fetchLatestDeployment() resumes (or rejects) on response r.
FetchReturn(c, r) ==
    /\ pc[c] = "fetch"
    /\ LET d == fetchLatestDeployment(r) IN
        IF d = Throw
        THEN /\ EndSocket(c, << >>, "exception")
             /\ UNCHANGED <<restarting, deployment, calls>>
        ELSE IF d = Null
        THEN /\ EndSocket(c, <<MsgNoDeployment>>, "nodeploy")
             /\ ReleaseNoDeployment
             /\ UNCHANGED <<deployment, calls>>
        ELSE /\ deployment' = [deployment EXCEPT ![c] = d]
             /\ Call(c, "restart", RestartArg(d))
             /\ pc' = [pc EXCEPT ![c] = "restart"]
             /\ UNCHANGED <<restarting, out, ends, path>>
    /\ UNCHANGED <<now, lastWake, timers, username, ok, running, wakeStart,
                   seen, scheduled, fired>>
    /\ UNCHANGED probe

\* await restartDeployment(deployment.id) resumes (or rejects) on response r.
RestartReturn(c, r) ==
    /\ pc[c] = "restart"
    /\ LET v == restartDeployment(r) IN
        IF v = Throw
        THEN /\ EndSocket(c, << >>, "exception")
             /\ UNCHANGED <<ok, timers, scheduled>>
        ELSE /\ ok' = [ok EXCEPT ![c] = v]
             /\ EndSocket(c, <<RestartText(v)>>,
                          IF v = "true" THEN "restartok" ELSE "restartfail")
             /\ timers' = timers \cup {[owner |-> c, set |-> now, due |-> now + ResetDelay]}
             /\ scheduled' = [scheduled EXCEPT ![c] = @ + 1]
    /\ UNCHANGED <<now, restarting, lastWake, username, deployment, calls,
                   running, wakeStart, seen, fired>>
    /\ UNCHANGED probe

\* The callback of setTimeout runs.
TimerFire(t) ==
    /\ t \in timers
    /\ now >= t.due
    /\ restarting' = FALSE
    /\ timers' = timers \ {t}
    /\ fired' = [fired EXCEPT ![t.owner] = @ + 1]
    /\ UNCHANGED <<now, lastWake, pc, locals, out, ends, calls, running, path,
                   wakeStart, seen, scheduled>>
    /\ UNCHANGED probe

\* The clock advances; a timer that is due runs before it advances again.
Advance ==
    /\ now + Tick <= StartTime + MaxTicks * Tick
    /\ \A t \in timers : t.due > now
    /\ now' = now + Tick
    /\ UNCHANGED <<restarting, lastWake, timers, pc, locals, out, ends, calls,
                   running, path, wakeStart, seen, scheduled, fired>>
    /\ UNCHANGED probe

\* A later data chunk of a connection: socket.once has removed the
\* listener, so no code runs.
MoreData(c) ==
    /\ pc[c] # "idle"
    /\ UNCHANGED vars

\* No other handler is suspended on an outbound call.
Alone(c) == \A b \in Conns : b # c => pc[b] \in {"idle", "done"}

NextSerial ==
    \/ \E c \in Conns, data \in Chunks : Alone(c) /\ Data(c, data)
    \/ \E c \in Conns, r \in HealthResponses : Alone(c) /\ HealthReturn(c, r)
    \/ \E c \in Conns, r \in GraphResponses : Alone(c) /\ FetchReturn(c, r)
    \/ \E c \in Conns, r \in GraphResponses : Alone(c) /\ RestartReturn(c, r)
    \/ \E c \in Conns : MoreData(c)
    \/ \E t \in timers : TimerFire(t)
    \/ Advance

Next ==
    \/ \E c \in Conns, data \in Chunks : Data(c, data)
    \/ \E c \in Conns, r \in HealthResponses : HealthReturn(c, r)
    \/ \E c \in Conns, r \in GraphResponses : FetchReturn(c, r)
    \/ \E c \in Conns, r \in GraphResponses : RestartReturn(c, r)
    \/ \E c \in Conns : MoreData(c)
    \/ \E t \in timers : TimerFire(t)
    \/ Advance

Spec == Init /\ [][Next]_vars

\* Every outbound call that was made is answered (it returns or fails).
CallsAnswered ==
    \A c \in Conns :
        /\ WF_vars(\E r \in HealthResponses : HealthReturn(c, r))
        /\ WF_vars(\E r \in GraphResponses : FetchReturn(c, r))
        /\ WF_vars(\E r \in GraphResponses : RestartReturn(c, r))

FairSpec == Spec /\ CallsAnswered

\* ------------------------------------------- the wrappers taken alone
\* One call of isServerRunning, fetchLatestDeployment or restartDeployment
\* on every response of a small set: a transport error, or an HTTP status
\* with a body.
HttpStatuses == {200, 204, 401, 500}

\* res.ok
HttpOk(status) == status >= 200 /\ status <= 299

\* Health bodies: not JSON, JSON null, and objects whose status is
\* "active", is something else, or is missing.
HealthBodies == {"malformed", "null", "active", "stopped", "nostatus"}

WrapperInputs ==
    { [fn |-> "health", transport |-> "error", status |-> 0,
       body |-> [kind |-> "none", edges |-> << >>], result |-> "pending"] }
    \cup
    { [fn |-> "health", transport |-> "ok", status |-> st,
       body |-> [kind |-> b, edges |-> << >>], result |-> "pending"] :
         st \in HttpStatuses, b \in HealthBodies }
    \cup
    { [fn |-> f, transport |-> "error", status |-> 0,
       body |-> [kind |-> "malformed", edges |-> << >>], result |-> "pending"] :
         f \in {"fetch", "restart"} }
    \cup
    { [fn |-> f, transport |-> "ok", status |-> st, body |-> b,
       result |-> "pending"] :
         f \in {"fetch", "restart"}, st \in HttpStatuses, b \in GraphBodies }

\* The response as the wrappers read it (a health body is its kind alone).
ResponseOf(p) ==
    [transport |-> p.transport, ok |-> HttpOk(p.status),
     body |-> IF p.fn = "health" THEN p.body.kind ELSE p.body]

ApplyHealth ==
    /\ probe.fn = "health"
    /\ probe.result = "pending"
    /\ probe' = [probe EXCEPT
                   !.result = IF isServerRunning(ResponseOf(probe)) THEN "true" ELSE "false"]
    /\ UNCHANGED <<now, restarting, lastWake, timers, pc, locals, out, ends,
                   calls, running, path, wakeStart, seen, scheduled, fired>>

ApplyFetch ==
    /\ probe.fn = "fetch"
    /\ probe.result = "pending"
    /\ probe' = [probe EXCEPT !.result = fetchLatestDeployment(ResponseOf(probe))]
    /\ UNCHANGED <<now, restarting, lastWake, timers, pc, locals, out, ends,
                   calls, running, path, wakeStart, seen, scheduled, fired>>

ApplyRestart ==
    /\ probe.fn = "restart"
    /\ probe.result = "pending"
    /\ probe' = [probe EXCEPT !.result = restartDeployment(ResponseOf(probe))]
    /\ UNCHANGED <<now, restarting, lastWake, timers, pc, locals, out, ends,
                   calls, running, path, wakeStart, seen, scheduled, fired>>

WrapperInit == ServerInit /\ probe \in WrapperInputs

WrapperNext == ApplyHealth \/ ApplyFetch \/ ApplyRestart

WrapperSpec == WrapperInit /\ [][WrapperNext]_vars

\* ------------------------------------------------------------ claims
Abs(n) == IF n < 0 THEN -n ELSE n

Initiated(c) == wakeStart[c] # 0

CalledController(c) ==
    \E i \in 1..Len(calls[c]) : calls[c][i].op \in {"fetch", "restart"}

\* C1: the starts of any two wake attempts are at least COOLDOWN_MS apart,
\* whatever became of the earlier one, and only a connection that set the
\* lock calls fetchLatestDeployment or restartDeployment.
C1_WakeStartsCooldownApart ==
    /\ \A c1, c2 \in Conns :
         (c1 # c2 /\ Initiated(c1) /\ Initiated(c2))
            => Abs(wakeStart[c1] - wakeStart[c2]) >= COOLDOWN_MS
    /\ \A c \in Conns : CalledController(c) => Initiated(c)

\* Two wake attempts in one run, and a connection turned away in between.
C1_Witness ==
    \E c1, c2 \in Conns :
        /\ c1 # c2
        /\ path[c1] \in {"nodeploy", "exception", "restartok", "restartfail"}
        /\ Initiated(c2)
        /\ wakeStart[c2] > wakeStart[c1]

\* C2: once a wake attempt has ended with no deployment found, a connection
\* whose health check says not running, and which meets the lock less than
\* COOLDOWN_MS after that attempt began, reaches step 3 again.
C2_RetryAfterNoDeployment ==
    \A c1, c2 \in Conns :
        ( /\ c1 # c2
          /\ path[c1] = "nodeploy"
          /\ running[c2] = "false"
          /\ seen[c2] = "cooldown" )
        => Initiated(c2)

\* C3: every wake attempt that reached step 3 and ended otherwise than by
\* the no-deployment release has scheduled its deferred reset exactly once,
\* and that reset has run or is pending.
C3_ResetOnEveryExit ==
    \A c \in Conns :
        (pc[c] = "done" /\ Initiated(c) /\ path[c] # "nodeploy")
        => /\ scheduled[c] = 1
           /\ fired[c] = 1 \/ \E t \in timers : t.owner = c

\* C4: after restartDeployment has returned true or false, a reset is set
\* for COOLDOWN_MS later, the same for both; restarting is true as long as
\* it is pending, and it clears restarting once COOLDOWN_MS has elapsed.
C4_StateOk ==
    /\ \A t \in timers :
         /\ restarting
         /\ t.due = t.set + COOLDOWN_MS
         /\ path[t.owner] \in {"restartok", "restartfail"}
    /\ \A c \in Conns :
         path[c] \in {"restartok", "restartfail"}
            => /\ scheduled[c] = 1
               /\ fired[c] = 1 \/ \E t \in timers : t.owner = c

C4_StepOk ==
    \A t \in timers :
        t \notin timers'
            => /\ now >= t.set + COOLDOWN_MS
               /\ now < t.set + COOLDOWN_MS + Tick
               /\ ~restarting'
               /\ fired'[t.owner] = 1

C4_CooldownAfterRestart == []C4_StateOk /\ [][C4_StepOk]_vars

\* A failed restart whose reset has run.
C4_Witness ==
    \E c \in Conns : path[c] = "restartfail" /\ fired[c] = 1 /\ ~restarting

\* C5: when fetchLatestDeployment returns no deployment the client gets the
\* no-deployment text, restartDeployment is not called, no reset is
\* scheduled, and restarting is false with no timer pending when the
\* handler returns.
C5_StateOk ==
    \A c \in Conns :
        path[c] = "nodeploy"
            => /\ out[c] = <<MsgNoDeployment>>
               /\ \A i \in 1..Len(calls[c]) : calls[c][i].op # "restart"
               /\ scheduled[c] = 0

C5_StepOk ==
    \A c \in Conns :
        (path[c] # "nodeploy" /\ path'[c] = "nodeploy")
            => ~restarting' /\ timers' = {}

C5_NoDeploymentReleases == []C5_StateOk /\ [][C5_StepOk]_vars

C5_Witness ==
    \E c \in Conns : path[c] = "nodeploy" /\ ~restarting /\ now = wakeStart[c]

\* C6: a health check that reports running gives the already-online text,
\* changes neither restarting nor lastWake nor the timers and makes no
\* Deployment Controller call, whatever the lock is.
C6_StepOk ==
    \A c \in Conns :
        (running[c] = "none" /\ running'[c] = "true")
            => /\ out'[c] = <<MsgOnline>>
               /\ pc'[c] = "done"
               /\ calls'[c] = calls[c]
               /\ UNCHANGED <<restarting, lastWake, timers, wakeStart>>

C6_RunningIsFrame == [][C6_StepOk]_vars

\* Already online answered while the flag was set.
C6_Witness ==
    \E c \in Conns : path[c] = "running" /\ seen[c] = "flag"

\* C7: a health check that reports not running while restarting is true or
\* less than COOLDOWN_MS have passed since lastWake gives the please-wait
\* text, makes no Deployment Controller call and changes no lock state.
C7_StepOk ==
    \A c \in Conns :
        ( /\ running[c] = "none"
          /\ running'[c] = "false"
          /\ restarting \/ now - lastWake < COOLDOWN_MS )
            => /\ out'[c] = <<MsgWait>>
               /\ pc'[c] = "done"
               /\ calls'[c] = calls[c]
               /\ UNCHANGED <<restarting, lastWake, timers, wakeStart>>

C7_LockedIsFrame == [][C7_StepOk]_vars

\* Turned away by the flag alone: the cooldown since lastWake is over.
C7_Witness ==
    \E c \in Conns :
        /\ path[c] = "starting"
        /\ seen[c] = "flag"
        /\ restarting
        /\ now - lastWake >= COOLDOWN_MS

ErrorTexts == {MsgNoDeployment, MsgRestartError}

\* C8: a connection whose fetchLatestDeployment or restartDeployment call
\* failed (threw, or reported failure) is closed with one error text.
C8_FailureGivesErrorText ==
    \A c \in Conns :
        path[c] \in {"exception", "nodeploy", "restartfail"}
            => Len(out[c]) = 1 /\ out[c][1] \in ErrorTexts

\* C9: a connection whose token is empty or contains the ping marker is
\* closed with no bytes written, no outbound call and no change of the lock.
C9_StateOk ==
    \A c \in Conns :
        (pc[c] # "idle" /\ (username[c] = << >> \/ Includes(username[c], PingMarker)))
            => /\ pc[c] = "done"
               /\ ends[c] = 1
               /\ out[c] = << >>
               /\ calls[c] = << >>
               /\ running[c] = "none"
               /\ ~Initiated(c)

C9_StepOk ==
    \A c \in Conns :
        ( /\ pc[c] = "idle"
          /\ pc'[c] # "idle"
          /\ username'[c] = << >> \/ Includes(username'[c], PingMarker) )
            => UNCHANGED <<restarting, lastWake, timers>>

C9_ProbesNeverWake == []C9_StateOk /\ [][C9_StepOk]_vars

\* A ping carrying more than the marker, dropped while the flag is set.
C9_Witness ==
    \E c \in Conns :
        /\ path[c] = "probe"
        /\ Len(username[c]) > Len(PingMarker)
        /\ restarting

\* C10: the initiator that found a deployment answers the try-again text
\* exactly when restartDeployment returned true and the error text exactly
\* when it returned false, called restartDeployment with the id of the
\* deployment it fetched, and leaves restarting true.
C10_StateOk ==
    \A c \in Conns :
        /\ pc[c] = "restart"
            => /\ deployment[c] \in DeploymentIds
               /\ calls[c][Len(calls[c])] = [op |-> "restart", arg |-> deployment[c]]
        /\ path[c] \in {"restartok", "restartfail"}
            => /\ ok[c] \in {"true", "false"}
               /\ out[c] = <<MsgStarting>> <=> ok[c] = "true"
               /\ out[c] = <<MsgRestartError>> <=> ok[c] = "false"
               /\ path[c] = "restartok" <=> ok[c] = "true"
               /\ calls[c][Len(calls[c])] = [op |-> "restart", arg |-> deployment[c]]

C10_StepOk ==
    \A c \in Conns :
        (path[c] = "none" /\ path'[c] \in {"restartok", "restartfail"})
            => restarting'

C10_InitiatorResponse == []C10_StateOk /\ [][C10_StepOk]_vars

C10_Witness ==
    \E c1, c2 \in Conns :
        /\ path[c1] = "restartok" /\ deployment[c1] = "d2"
        /\ path[c2] = "restartfail"

Suspended(c) == pc[c] \in {"health", "fetch", "restart"}

\* The handler of connection c runs its next piece of code.
HandlerStep(c) == Next /\ pc'[c] # pc[c]

\* C11: whatever the other connections are waiting for, a connection whose
\* turn it is to send its first chunk can have its handler started, and a
\* handler suspended on an outbound call can resume as soon as that call
\* answers: no handler waits on another handler.
C11_HandlersIndependent ==
    \A c \in Conns :
        /\ (pc[c] = "idle" /\ \A b \in Conns : b < c => pc[b] # "idle")
              => ENABLED HandlerStep(c)
        /\ Suspended(c) => ENABLED HandlerStep(c)

\* A later connection has been answered while an earlier one is still
\* suspended on an outbound call.
C11_Witness ==
    \E c1, c2 \in Conns :
        /\ c1 < c2
        /\ Suspended(c1)
        /\ pc[c2] = "done"
        /\ Len(out[c2]) = 1

\* C12: restarting is true only while a wake attempt is executing or a
\* deferred reset is pending.
C12_FlagHasOwner ==
    restarting => ((\E c \in Conns : pc[c] \in {"fetch", "restart"}) \/ timers # {})

\* C13: the lock test and the setting of restarting and lastWake are one
\* step, taken before the first Deployment Controller call; while such a
\* call is outstanding restarting is true, lastWake is the caller's start
\* and the caller is the only initiator at work.
C13_StateOk ==
    \A c \in Conns :
        pc[c] \in {"fetch", "restart"}
            => /\ restarting
               /\ Initiated(c)
               /\ lastWake = wakeStart[c]
               /\ \A b \in Conns : pc[b] \in {"fetch", "restart"} => b = c

C13_StepOk ==
    \A c \in Conns :
        (pc[c] = "health" /\ running'[c] = "false" /\ ~restarting
            /\ now - lastWake >= COOLDOWN_MS)
            => /\ restarting'
               /\ lastWake' = now
               /\ pc'[c] = "fetch"
               /\ calls'[c] = Append(calls[c], [op |-> "fetch", arg |-> ""])

C13_CheckAndSetAtomic == []C13_StateOk /\ [][C13_StepOk]_vars

\* Two health checks were outstanding together; one caller took the lock
\* and is calling the controller, the other was turned away by the flag.
C13_Witness ==
    \E c1, c2 \in Conns :
        /\ pc[c1] = "restart"
        /\ path[c2] = "starting"
        /\ seen[c2] = "flag"
        /\ now = wakeStart[c1]

\* C14: while a Deployment Controller call of a wake attempt is outstanding
\* the release of the lock is already scheduled, so that restarting is
\* cleared even if the call never returns.
C14_ReleaseSurvivesStall ==
    \A c \in Conns :
        (pc[c] \in {"fetch", "restart"} /\ restarting)
            => \E t \in timers : t.owner = c

Answered(fn) == probe.fn = fn /\ probe.result # "pending"

\* The response is a transport error, a non-2xx response or carries errors.
ControllerFailure ==
    \/ probe.transport = "error"
    \/ ~HttpOk(probe.status)
    \/ probe.body.kind = "errors"

\* C15: on a transport error, a non-2xx response or an errors payload
\* fetchLatestDeployment returns none and restartDeployment returns false,
\* and neither throws.
C15_ControllerFailsClosed ==
    /\ (Answered("fetch") /\ ControllerFailure) => probe.result = Null
    /\ (Answered("restart") /\ ControllerFailure) => probe.result = "false"
    /\ (Answered("fetch") \/ Answered("restart")) => probe.result # Throw

Paths ==
    {"dropped", "probe", "running", "starting", "nodeploy", "restartok",
     "restartfail", "exception"}

CallOrder == <<"health", "fetch", "restart">>

\* C17: the handler runs once per connection, on its first chunk only; it
\* makes each outbound call at most once, in order; on every path it ends
\* the socket exactly once with at most one text; and once the calls it
\* made are answered, a connection that sent its first chunk is closed.
C17_StateOk ==
    \A c \in Conns :
        /\ ends[c] = (IF pc[c] = "done" THEN 1 ELSE 0)
        /\ Len(out[c]) <= 1
        /\ pc[c] # "done" => out[c] = << >> /\ path[c] = "none"
        /\ pc[c] = "done" => path[c] \in Paths
        /\ Len(calls[c]) <= 3
        /\ \A i \in 1..Len(calls[c]) : calls[c][i].op = CallOrder[i]

C17_StepOk ==
    \A c \in Conns :
        /\ pc[c] # "idle" => username'[c] = username[c] /\ pc'[c] # "idle"
        /\ pc[c] = "done"
              => /\ pc'[c] = "done"
                 /\ out'[c] = out[c]
                 /\ ends'[c] = ends[c]
                 /\ calls'[c] = calls[c]
                 /\ path'[c] = path[c]

C17_EndedOnce ==
    /\ []C17_StateOk
    /\ [][C17_StepOk]_vars
    /\ \A c \in Conns : (pc[c] # "idle") ~> (pc[c] = "done")

\* A ping closed at once and a handler closed by the catch.
C17_Witness ==
    \E c1, c2 \in Conns :
        /\ path[c1] = "probe" /\ ends[c1] = 1
        /\ path[c2] = "exception" /\ ends[c2] = 1 /\ Len(calls[c2]) = 3

\* C18: at most one deferred reset is pending, and when it runs the wake
\* attempt that scheduled it is still the latest one and no handler is in
\* a wake attempt: a reset never clears the lock of a newer attempt.
C18_StateOk ==
    /\ Cardinality(timers) <= 1
    /\ \A t \in timers :
         /\ lastWake = wakeStart[t.owner]
         /\ \A c \in Conns : pc[c] \notin {"fetch", "restart"}

C18_StepOk ==
    \A t \in timers :
        t \notin timers'
            => /\ lastWake = wakeStart[t.owner]
               /\ \A c \in Conns : pc[c] \notin {"fetch", "restart"}
               /\ timers' = {}

C18_NoStaleReset == []C18_StateOk /\ [][C18_StepOk]_vars

\* A second wake attempt under way after the first one's reset has run.
C18_Witness ==
    \E c1, c2 \in Conns :
        /\ fired[c1] = 1
        /\ pc[c2] \in {"fetch", "restart"}
        /\ timers = {}

\* C19: when the deferred reset clears restarting, COOLDOWN_MS or more have
\* passed since lastWake, so the lock is free; and a handler that finds the
\* lock free with the server not running becomes the wake initiator.
C19_StateOk ==
    \A c \in Conns :
        (seen[c] = "free" /\ running[c] = "false")
            => Initiated(c) /\ path[c] # "starting"

C19_StepOk ==
    \A t \in timers :
        t \notin timers'
            => /\ now - lastWake >= COOLDOWN_MS
               /\ ~restarting'
               /\ now' - lastWake' >= COOLDOWN_MS

C19_ResetLeavesLockFree == []C19_StateOk /\ [][C19_StepOk]_vars

\* The connection after a reset starts the next wake attempt.
C19_Witness ==
    \E c1, c2 \in Conns :
        /\ fired[c1] = 1
        /\ Initiated(c2)
        /\ wakeStart[c2] >= wakeStart[c1] + COOLDOWN_MS
        /\ seen[c2] = "free"

=============================================================================
